---- MODULE Spec2Model ----
(***************************************************************************)
(* A model of the request handlers of src/index.ts (mcp-server-graphdb):   *)
(* listResources, readResource and callTool, with the remote SPARQL        *)
(* endpoint as the environment.  Every handler is an async function: the   *)
(* code between two awaits is one atomic step, so each handler is a Begin  *)
(* action (up to its first remote call or its return) and a Resume action  *)
(* (from the answer of the pending remote call to the next call or the     *)
(* return); Respond hands the outcome to the transport, which then takes   *)
(* the next request.  Text is modelled by TLA+ strings, on which Len,      *)
(* SubSeq and \o work character by character.                              *)
(***************************************************************************)
EXTENDS Integers, Sequences, FiniteSets, TLC

VARIABLES
    repository,  \* the configured repository name (src/index.ts:53)
    request,     \* the request being handled
    pc,          \* "idle", "await" (suspended on a remote call) or "done"
    locals,      \* the suspended handler's local variables
    calls,       \* the remote calls issued for the current request, in order
    answers,     \* what the remote endpoint answered to them, in order
    response     \* what the handler returned or threw

vars == <<repository, request, pc, locals, calls, answers, response>>

----------------------------------------------------------------------------
(* Bounds of the model.                                                    *)

MaxRows == 2    \* most bindings in one result envelope
MaxFrags == 3   \* most fragments a caller's query text is built from

----------------------------------------------------------------------------
(* JavaScript values: undefined, a string, or a value that is not text.    *)

Undefined == [t |-> "undefined"]
NonText == [t |-> "number"]
Str(s) == [t |-> "string", v |-> s]

\* JavaScript truthiness: undefined and "" are falsy, a non-zero number is truthy.
Truthy(x) == IF x.t = "string" THEN x.v # "" ELSE x.t # "undefined"

\* A completion of a piece of code: a returned value or a thrown error.
Returned(x) == [threw |-> FALSE, value |-> x]
Thrown(msg) == [threw |-> TRUE, message |-> msg]

----------------------------------------------------------------------------
(* String.prototype.includes / indexOf / substring (0-based, as in JS).    *)

includes(s, sub) ==
    \E i \in 1..(Len(s) - Len(sub) + 1) : SubSeq(s, i, i + Len(sub) - 1) = sub

indexOf(s, sub) ==
    IF includes(s, sub)
    THEN (CHOOSE i \in 1..(Len(s) - Len(sub) + 1) :
              /\ SubSeq(s, i, i + Len(sub) - 1) = sub
              /\ \A j \in 1..(i - 1) : SubSeq(s, j, j + Len(sub) - 1) # sub) - 1
    ELSE -1

substring(s, from, to) == SubSeq(s, from + 1, to)

substringFrom(s, from) == SubSeq(s, from + 1, Len(s))

----------------------------------------------------------------------------
(* Configuration and path constants.                                       *)

\* No repository, an ordinary name, and a name equal to a reserved path token.
Repositories == {"", "repo", "stats"}

REPOSITORY_PATH == "repository"
GRAPH_PATH == "graph"
CLASS_LIST_PATH == "classes"
PREDICATES_PATH == "predicates"
SAMPLE_DATA_PATH == "sample"
STATS_PATH == "stats"

JsonAccept == "application/sparql-results+json"
XmlAccept == "application/sparql-results+xml"
CsvAccept == "text/csv"

\* The named graphs the remote repository may hold.
Graphs == {"urn:a", "urn:b"}

----------------------------------------------------------------------------
(* The fixed queries, with their whitespace collapsed.                     *)

GraphsQuery == "SELECT DISTINCT ?graph WHERE { GRAPH ?graph { ?s ?p ?o } } ORDER BY ?graph"

ClassListQuery == "SELECT DISTINCT ?class ?label ?comment (COUNT(?instance) as ?count) WHERE { ... } GROUP BY ?class ?label ?comment ORDER BY DESC(?count)"

PredicatesQuery == "SELECT DISTINCT ?predicate ?label ?comment (COUNT(*) as ?usage) WHERE { ... } GROUP BY ?predicate ?label ?comment ORDER BY DESC(?usage) LIMIT 100"

StatsQuery == "SELECT (COUNT(DISTINCT ?s) as ?subjects) (COUNT(DISTINCT ?p) as ?predicates) (COUNT(DISTINCT ?o) as ?objects) (COUNT(*) as ?triples) WHERE { ?s ?p ?o . }"

GraphCountQuery == "SELECT (COUNT(DISTINCT ?g) as ?graphs) WHERE { GRAPH ?g { ?s ?p ?o } }"

SampleQuery == "SELECT ?subject ?predicate ?object WHERE { ?subject ?predicate ?object } LIMIT 50"

GraphSampleQuery(graphUri) ==
    "SELECT ?subject ?predicate ?object FROM <" \o graphUri \o "> WHERE { ?subject ?predicate ?object } LIMIT 100"

MetadataQuery(graphUri) ==
    "SELECT (COUNT(*) as ?triples) (COUNT(DISTINCT ?s) as ?subjects) (COUNT(DISTINCT ?p) as ?predicates) FROM <" \o graphUri \o "> WHERE { ?s ?p ?o . }"

OntologyQuery(graphUri) ==
    "SELECT DISTINCT ?class FROM <" \o graphUri \o "> WHERE { { ?class a rdfs:Class . } UNION { ?class a owl:Class . } } LIMIT 20"

ListGraphsQuery == "SELECT DISTINCT ?graph WHERE { GRAPH ?graph { ?s ?p ?o } } ORDER BY ?graph"

----------------------------------------------------------------------------
(* The remote endpoint (the environment) and the two ways of calling it.   *)

\* Sequences over S of length at most n.
SeqsUpTo(S, n) == UNION {[1..k -> S] : k \in 0..n}

\* An outbound POST: its target repository, its Accept header, its body and
\* the path that issued it ("typed": executeSparqlQuery, "raw": the inline fetch).
Call(query, accept, via) ==
    [repository |-> repository, accept |-> accept, body |-> query, via |-> via]

\* The bindings a well-formed envelope may carry: graph IRIs (the value of the
\* ?graph variable) for the graph-discovery query, opaque rows otherwise.
\* A SELECT of aggregates alone has exactly one solution.
IsAggregate(body) ==
    /\ body.t = "string"
    /\ Len(body.v) >= 14
    /\ SubSeq(body.v, 1, 14) = "SELECT (COUNT("

Bindings(call) ==
    IF call.body \in {Str(GraphsQuery), Str(ListGraphsQuery)}
    THEN SeqsUpTo(Graphs, MaxRows)
    ELSE IF IsAggregate(call.body) THEN {<<"row">>}
    ELSE SeqsUpTo({"row"}, MaxRows)

\* What the remote call can come back with: a rejected fetch, a non-2xx status,
\* or a 2xx status whose body is not JSON, is JSON of another shape ("{}"), or is
\* a SPARQL results envelope.
Responses(call) ==
    {[net |-> "failed"], [net |-> "ok", ok |-> FALSE, kind |-> "status"]}
    \cup {[net |-> "ok", ok |-> TRUE, kind |-> k] : k \in {"notjson", "badshape"}}
    \cup {[net |-> "ok", ok |-> TRUE, kind |-> "envelope", bindings |-> b] : b \in Bindings(call)}

NetworkMessage == "request to endpoint failed"
StatusMessage == "GraphDB query failed: 500 Internal Server Error"
JsonMessage == "invalid json response body"

\* executeSparqlQuery: throws on a rejected fetch, on !response.ok and when
\* response.json() rejects; otherwise returns the parsed body, unvalidated.
executeSparqlQuery(r) ==
    IF r.net = "failed" THEN Thrown(NetworkMessage)
    ELSE IF ~r.ok THEN Thrown(StatusMessage)
    ELSE IF r.kind = "notjson" THEN Thrown(JsonMessage)
    ELSE IF r.kind = "badshape" THEN Returned([shape |-> "other"])
    ELSE Returned([shape |-> "results", bindings |-> r.bindings])

\* JSON.stringify(value, null, 2): the text of a JSON value.
JSONstringify(value) == [json |-> value]

\* result.results.bindings: a TypeError when the parsed body has no results.
HasBindings(result) == result.shape = "results"

TypeErrorMessage == "Cannot read properties of undefined"

----------------------------------------------------------------------------
(* Start of a request.                                                     *)

Ready == pc = "idle"

NoLocals == [at |-> "none"]
NoResponse == [kind |-> "none"]

\* A handler's outcome: a value returned to the transport, or an error thrown
\* to it (a protocol-level fault).
Result(value) == [kind |-> "result", value |-> value]
Fault(message) == [kind |-> "fault", message |-> message]

Init ==
    /\ repository \in Repositories
    /\ request = [op |-> "none"]
    /\ pc = "idle"
    /\ locals = NoLocals
    /\ calls = <<>>
    /\ answers = <<>>
    /\ response = NoResponse

----------------------------------------------------------------------------
(* listResources (src/index.ts:128-181).                                   *)

\* encodeURIComponent on the characters the model's graph IRIs use.
EscapeOf(c) ==
    CASE c = ":" -> "%3A"
      [] c = "/" -> "%2F"
      [] c = "%" -> "%25"
      [] c = " " -> "%20"
      [] c = "<" -> "%3C"
      [] c = ">" -> "%3E"
      [] OTHER -> c

RECURSIVE encodeURIComponent(_)
encodeURIComponent(s) ==
    IF s = "" THEN ""
    ELSE EscapeOf(SubSeq(s, 1, 1)) \o encodeURIComponent(SubSeq(s, 2, Len(s)))

\* new URL(relative, resourceBaseUrl).href, kept as its path split at "/".
ResourceUri(segments) == <<"">> \o segments

FixedDescriptor(path, title) ==
    [uri |-> ResourceUri(<<REPOSITORY_PATH, repository, path>>),
     mimeType |-> "application/json",
     name |-> "Repository '" \o repository \o "' " \o title]

GraphDescriptor(graph) ==
    [uri |-> ResourceUri(<<REPOSITORY_PATH, repository, GRAPH_PATH, encodeURIComponent(graph)>>),
     mimeType |-> "application/json",
     name |-> "Graph '" \o graph \o "'"]

\* A listing with the graphs put before the fixed views.
ResourcesGraphsFirst(graphs) ==
    [i \in 1..Len(graphs) |-> GraphDescriptor(graphs[i])]
    \o << FixedDescriptor(CLASS_LIST_PATH, "class list"),
          FixedDescriptor(PREDICATES_PATH, "predicates"),
          FixedDescriptor(STATS_PATH, "statistics"),
          FixedDescriptor(SAMPLE_DATA_PATH, "sample data") >>

\* The listing built from the discovered graphs (lines 146-176).
Resources(graphs) ==
    << FixedDescriptor(CLASS_LIST_PATH, "class list"),
       FixedDescriptor(PREDICATES_PATH, "predicates"),
       FixedDescriptor(STATS_PATH, "statistics"),
       FixedDescriptor(SAMPLE_DATA_PATH, "sample data") >>
    \o [i \in 1..Len(graphs) |-> GraphDescriptor(graphs[i])]

ListResourcesBegin ==
    /\ Ready
    /\ request' = [op |-> "listResources"]
    /\ IF repository = ""
       THEN /\ pc' = "done"
            /\ calls' = <<>>
            /\ locals' = NoLocals
            /\ response' = Result([resources |-> <<>>])
       ELSE /\ pc' = "await"
            /\ calls' = <<Call(Str(GraphsQuery), JsonAccept, "typed")>>
            /\ locals' = [at |-> "list"]
            /\ response' = NoResponse
    /\ answers' = <<>>
    /\ UNCHANGED repository

\* A catch that still lists the fixed views.
ListResourcesAfterFixedViews(completion) ==
    IF completion.threw \/ ~HasBindings(completion.value)
    THEN Result([resources |-> Resources(<<>>)])
    ELSE Result([resources |-> Resources(completion.value.bindings)])

\* The body of the try block after the await (lines 143-176), the catch (177-180).
ListResourcesAfter(completion) ==
    IF completion.threw \/ ~HasBindings(completion.value)
    THEN Result([resources |-> <<>>])
    ELSE Result([resources |-> Resources(completion.value.bindings)])

ListResourcesResume ==
    /\ pc = "await"
    /\ request.op = "listResources"
    /\ \E r \in Responses(calls[Len(calls)]) :
          /\ response' = ListResourcesAfter(executeSparqlQuery(r))
          /\ answers' = Append(answers, r)
    /\ pc' = "done"
    /\ locals' = NoLocals
    /\ UNCHANGED <<repository, request, calls>>

----------------------------------------------------------------------------
(* readResource (src/index.ts:184-401).                                    *)

\* decodeURIComponent on the escapes encodeURIComponent produces here; a "%"
\* that does not start such an escape is a URIError.
Unescapes == {"%3A", "%2F", "%25", "%20", "%3C", "%3E"}

UnescapeOf(e) ==
    CASE e = "%3A" -> ":"
      [] e = "%2F" -> "/"
      [] e = "%25" -> "%"
      [] e = "%20" -> " "
      [] e = "%3C" -> "<"
      [] e = "%3E" -> ">"

RECURSIVE decodeURIComponent(_)
decodeURIComponent(s) ==
    IF s = "" THEN Returned("")
    ELSE IF SubSeq(s, 1, 1) = "%"
    THEN IF Len(s) >= 3 /\ SubSeq(s, 1, 3) \in Unescapes
         THEN LET rest == decodeURIComponent(SubSeq(s, 4, Len(s)))
              IN  IF rest.threw THEN rest
                  ELSE Returned(UnescapeOf(SubSeq(s, 1, 3)) \o rest.value)
         ELSE Thrown("URI malformed")
    ELSE LET rest == decodeURIComponent(SubSeq(s, 2, Len(s)))
         IN  IF rest.threw THEN rest
             ELSE Returned(SubSeq(s, 1, 1) \o rest.value)

ViewTokens == {CLASS_LIST_PATH, PREDICATES_PATH, SAMPLE_DATA_PATH, STATS_PATH}

\* The scan of the path components (lines 189-202), from index i (1-based here)
\* with the variables found so far; decodeURIComponent may throw out of it.
RECURSIVE ParsePath(_, _, _)
ParsePath(pathComponents, i, found) ==
    IF i > Len(pathComponents) THEN Returned(found)
    ELSE IF pathComponents[i] = REPOSITORY_PATH /\ i + 1 <= Len(pathComponents)
    THEN ParsePath(pathComponents, i + 1,
                   [found EXCEPT !.repoName = pathComponents[i + 1]])
    ELSE IF pathComponents[i] = GRAPH_PATH /\ i + 1 <= Len(pathComponents)
    THEN LET decoded == decodeURIComponent(pathComponents[i + 1])
         IN  IF decoded.threw THEN decoded
             ELSE ParsePath(pathComponents, i + 1,
                            [found EXCEPT !.graphUri = decoded.value])
    ELSE IF pathComponents[i] \in ViewTokens
    THEN ParsePath(pathComponents, i + 1,
                   [found EXCEPT !.resourceType = pathComponents[i]])
    ELSE ParsePath(pathComponents, i + 1, found)

ParseAddress(uri) ==
    ParsePath(uri, 1, [repoName |-> "", graphUri |-> "", resourceType |-> ""])

\* One step of a handler: issue the next remote call and suspend, or finish.
Issue(call, loc) == [do |-> "call", call |-> call, locals |-> loc]
Finish(resp) == [do |-> "return", response |-> resp]

\* The step taken, after the calls already made for this request and the
\* answers already received.
Take(step, made, got) ==
    /\ answers' = got
    /\ IF step.do = "call"
       THEN /\ pc' = "await"
            /\ calls' = Append(made, step.call)
            /\ locals' = step.locals
            /\ response' = NoResponse
       ELSE /\ pc' = "done"
            /\ calls' = made
            /\ locals' = NoLocals
            /\ response' = step.response

Typed(query) == Call(Str(query), JsonAccept, "typed")

\* The contents a read returns (e.g. lines 231-239).
Contents(uri, payload) ==
    [contents |-> << [uri |-> uri, mimeType |-> "application/json",
                      text |-> JSONstringify(payload)] >>]

\* A check that never finds the repository name missing.
MissingRepositoryNever(repoName) == FALSE

\* A check that also refuses a repository other than the configured one.
MissingOrForeignRepository(repoName) == repoName # repository

\* if (!repoName) (line 204).
MissingRepository(repoName) == repoName = ""

\* From the start of the handler to its first await, return or throw
\* (lines 185-230, 256, 280, 319, 340, 396).
ReadResourceStart(uri) ==
    LET parsed == ParseAddress(uri) IN
    IF parsed.threw THEN Finish(Fault(parsed.message))
    ELSE IF MissingRepository(parsed.value.repoName)
    THEN Finish(Fault("Invalid resource URI: missing repository name"))
    ELSE IF parsed.value.resourceType = CLASS_LIST_PATH
    THEN Issue(Typed(ClassListQuery), [at |-> "classes"])
    ELSE IF parsed.value.resourceType = PREDICATES_PATH
    THEN Issue(Typed(PredicatesQuery), [at |-> "predicates"])
    ELSE IF parsed.value.resourceType = STATS_PATH
    THEN Issue(Typed(StatsQuery), [at |-> "stats"])
    ELSE IF parsed.value.resourceType = SAMPLE_DATA_PATH
    THEN Issue(Typed(SampleQuery), [at |-> "sample"])
    ELSE IF parsed.value.graphUri # ""
    THEN Issue(Typed(GraphSampleQuery(parsed.value.graphUri)),
               [at |-> "graphSample", graphUri |-> parsed.value.graphUri])
    ELSE Finish(Fault("Invalid resource URI"))

\* The statistics payload (lines 293-298); bindings[0] of the graph count must exist.
StatsCombined(result, graphResult) ==
    IF ~HasBindings(result) \/ ~HasBindings(graphResult) \/ graphResult.bindings = <<>>
    THEN Thrown(TypeErrorMessage)
    ELSE Returned([statistics |->
                      [counts |-> SubSeq(result.bindings, 1, 1),
                       graphs |-> graphResult.bindings[1]]])

\* The graph-detail payload (lines 379-383).
GraphCombined(result, metadataResult, ontologyResult) ==
    IF ~HasBindings(result) \/ ~HasBindings(metadataResult) \/ ~HasBindings(ontologyResult)
    THEN Thrown(TypeErrorMessage)
    ELSE Returned([sampleData |-> result.bindings,
                   metadata |-> SubSeq(metadataResult.bindings, 1, 1),
                   ontologyClasses |-> ontologyResult.bindings])

\* A substitute that lacks the results member.
OntologyResultBare(completion) ==
    IF completion.threw THEN [shape |-> "other"] ELSE completion.value

\* The inner try/catch around the ontology query (lines 371-376).
OntologyResult(completion) ==
    IF completion.threw THEN [shape |-> "results", bindings |-> <<>>]
    ELSE completion.value

\* A throw out of the try block.
Throw(message) == [do |-> "throw", message |-> message]

\* The try block (lines 208-396), from the answer of the pending call to the
\* next await, return or throw.
ReadResourceTry(uri, loc, completion) ==
    IF loc.at \in {"classes", "predicates", "sample"}
    THEN IF completion.threw THEN Throw(completion.message)
         ELSE Finish(Result(Contents(uri, completion.value)))
    ELSE IF loc.at = "stats"
    THEN IF completion.threw THEN Throw(completion.message)
         ELSE Issue(Typed(GraphCountQuery),
                    [at |-> "graphCount", result |-> completion.value])
    ELSE IF loc.at = "graphCount"
    THEN IF completion.threw THEN Throw(completion.message)
         ELSE LET combined == StatsCombined(loc.result, completion.value)
              IN  IF combined.threw THEN Throw(combined.message)
                  ELSE Finish(Result(Contents(uri, combined.value)))
    ELSE IF loc.at = "graphSample"
    THEN IF completion.threw THEN Throw(completion.message)
         ELSE Issue(Typed(MetadataQuery(loc.graphUri)),
                    [at |-> "metadata", graphUri |-> loc.graphUri,
                     result |-> completion.value])
    ELSE IF loc.at = "metadata"
    THEN IF completion.threw THEN Throw(completion.message)
         ELSE Issue(Typed(OntologyQuery(loc.graphUri)),
                    [at |-> "ontology", graphUri |-> loc.graphUri,
                     result |-> loc.result, metadataResult |-> completion.value])
    ELSE LET combined == GraphCombined(loc.result, loc.metadataResult,
                                       OntologyResult(completion))
         IN  IF combined.threw THEN Throw(combined.message)
             ELSE Finish(Result(Contents(uri, combined.value)))

\* A catch that issues the failed query once more instead of rethrowing.
ReadResourceCatchRetrying(step) ==
    IF step.do = "throw" THEN Issue(calls[Len(calls)], locals) ELSE step

\* The outer catch (lines 397-400) logs and rethrows: the handler ends in a fault.
ReadResourceCatch(step) ==
    IF step.do = "throw" THEN Finish(Fault(step.message)) ELSE step

ReadResourceAfter(uri, loc, completion) ==
    ReadResourceCatch(ReadResourceTry(uri, loc, completion))

\* The addresses read: a repository part and a view part, in either order.
RepoParts ==
    {<<>>, <<REPOSITORY_PATH>>}
    \cup {<<REPOSITORY_PATH, r>> : r \in {"", "repo", "other"}}
    \cup {<<REPOSITORY_PATH, "repo", REPOSITORY_PATH, "">>,
          <<REPOSITORY_PATH, REPOSITORY_PATH, "repo">>}

GraphSegments == {encodeURIComponent(g) : g \in Graphs} \cup {"", "%"}

ViewParts ==
    {<<>>, <<GRAPH_PATH>>}
    \cup {<<v>> : v \in ViewTokens}
    \cup {<<GRAPH_PATH, e>> : e \in GraphSegments}
    \cup {<<GRAPH_PATH, e, v>> : e \in GraphSegments, v \in ViewTokens}
    \cup {<<v, GRAPH_PATH, e>> : e \in GraphSegments, v \in ViewTokens}

Addresses ==
    {<<"">> \o a \o b : a \in RepoParts, b \in ViewParts}
    \cup {<<"">> \o b \o a : a \in RepoParts, b \in ViewParts}

\* The addresses a listing of the configured repository hands out.
ListedAddresses ==
    IF repository = "" THEN {}
    ELSE {Resources(<<g>>)[i].uri : g \in Graphs, i \in 1..5}

ReadResourceBegin ==
    /\ Ready
    /\ \E uri \in Addresses \cup ListedAddresses :
          /\ request' = [op |-> "readResource", uri |-> uri]
          /\ Take(ReadResourceStart(uri), <<>>, <<>>)
    /\ UNCHANGED repository

ReadResourceResume ==
    /\ pc = "await"
    /\ request.op = "readResource"
    /\ \E r \in Responses(calls[Len(calls)]) :
          Take(ReadResourceAfter(request.uri, locals, executeSparqlQuery(r)), calls,
               Append(answers, r))
    /\ UNCHANGED <<repository, request>>

----------------------------------------------------------------------------
(* callTool (src/index.ts:444-548).                                        *)

\* const format = request.params.arguments?.format as string || "json"
FormatOf(arguments) ==
    IF Truthy(arguments.format) THEN arguments.format ELSE Str("json")

\* The Accept header chosen from the format (lines 451-456).
acceptHeader(format) ==
    IF format = Str("xml") THEN XmlAccept
    ELSE IF format = Str("csv") THEN CsvAccept
    ELSE JsonAccept

\* A test for a FROM clause alone.
AlreadyScopedFromOnly(text) == includes(text, "FROM <")

\* A test for a GRAPH pattern alone.
AlreadyScopedGraphOnly(text) == includes(text, "GRAPH <")

\* The test for the caller's own scoping (line 460).
AlreadyScoped(text) == includes(text, "FROM <") \/ includes(text, "GRAPH <")

\* The graph-scoping rewrite (lines 459-469).  sparqlQuery.includes is a
\* TypeError when the query argument is missing or is not a string; the call is
\* only reached when graph is truthy.
modifiedQuery(sparqlQuery, graph) ==
    IF ~Truthy(graph) THEN Returned(sparqlQuery)
    ELSE IF sparqlQuery.t # "string" THEN Thrown(TypeErrorMessage)
    ELSE IF AlreadyScoped(sparqlQuery.v)
    THEN Returned(sparqlQuery)
    ELSE LET insertPoint == indexOf(sparqlQuery.v, "WHERE")
         IN  IF insertPoint > 0
             THEN Returned(Str(substring(sparqlQuery.v, 0, insertPoint)
                               \o "FROM <" \o graph.v \o "> "
                               \o substringFrom(sparqlQuery.v, insertPoint)))
             ELSE Returned(sparqlQuery)

\* Which of the two response-handling branches is taken (line 473).
UsesRawPath(format) == format # Str("json")

ToolResult(text, isError) ==
    [content |-> << [type |-> "text", text |-> text] >>, isError |-> isError]

\* An unknown tool reported in band.
UnknownToolInBand(name) == Finish(Result(ToolResult("Unknown tool: " \o name, TRUE)))

\* The throw that ends the handler for any other tool name (line 547).
UnknownTool(name) == Finish(Fault("Unknown tool: " \o name))

\* From the start of the handler to its first await, return or throw.  The
\* rewrite runs before the try block, so what it throws leaves the handler.
CallToolStart(name, arguments) ==
    IF name = "sparqlQuery"
    THEN LET format == FormatOf(arguments)
             modified == modifiedQuery(arguments.query, arguments.graph)
         IN  IF modified.threw THEN Finish(Fault(modified.message))
             ELSE IF UsesRawPath(format)
             THEN Issue(Call(modified.value, acceptHeader(format), "raw"),
                        [at |-> "raw"])
             ELSE Issue(Call(modified.value, acceptHeader(format), "typed"),
                        [at |-> "typed"])
    ELSE IF name = "listGraphs"
    THEN Issue(Typed(ListGraphsQuery), [at |-> "listGraphs"])
    ELSE UnknownTool(name)

\* The inline fetch of the raw path (lines 494-504): the body as literal text.
rawFetch(r) ==
    IF r.net = "failed" THEN Thrown(NetworkMessage)
    ELSE IF ~r.ok THEN Thrown(StatusMessage)
    ELSE Returned([raw |-> IF r.kind = "envelope" THEN r.bindings ELSE r.kind])

\* From the answer of the pending call to the return; both catch blocks turn
\* the error into a ToolResult (lines 517-522, 539-544).
CallToolAfter(loc, r) ==
    IF loc.at = "raw"
    THEN LET textResult == rawFetch(r)
         IN  IF textResult.threw
             THEN Finish(Result(ToolResult("Error executing query: " \o textResult.message, TRUE)))
             ELSE Finish(Result(ToolResult(textResult.value, FALSE)))
    ELSE LET result == executeSparqlQuery(r)
         IN  IF result.threw
             THEN Finish(Result(ToolResult(
                      (IF loc.at = "typed" THEN "Error executing query: "
                                           ELSE "Error listing graphs: ")
                      \o result.message, TRUE)))
             ELSE Finish(Result(ToolResult(JSONstringify(result.value), FALSE)))

\* The callers' query texts: up to MaxFrags fragments put together.
Fragments ==
    {"SELECT * ", "WHERE {} ", "FROM <urn:h> ", "GRAPH <urn:h> {} ", "FROM ", "where {} "}

RECURSIVE Concat(_)
Concat(fs) == IF fs = <<>> THEN "" ELSE Head(fs) \o Concat(Tail(fs))

QueryTexts == {Concat(fs) : fs \in SeqsUpTo(Fragments, MaxFrags)}

QueryArgs == {Undefined, NonText} \cup {Str(q) : q \in QueryTexts}
GraphArgs == {Undefined, Str(""), Str("urn:g")}
FormatArgs == {Undefined} \cup {Str(f) : f \in {"", "json", "xml", "csv", "turtle"}}

ToolNames == {"sparqlQuery", "listGraphs", "bogus"}

\* The argument mappings tried with a tool; only sparqlQuery reads its arguments.
ArgumentsOf(name) ==
    IF name = "sparqlQuery"
    THEN [query : QueryArgs, graph : GraphArgs, format : FormatArgs]
    ELSE [query : {Undefined, Str("SELECT * WHERE {} ")}, graph : GraphArgs,
          format : {Undefined, Str("csv")}]

CallToolBegin ==
    /\ Ready
    /\ \E name \in ToolNames : \E arguments \in ArgumentsOf(name) :
          /\ request' = [op |-> "callTool", name |-> name, arguments |-> arguments]
          /\ Take(CallToolStart(name, arguments), <<>>, <<>>)
    /\ UNCHANGED repository

CallToolResume ==
    /\ pc = "await"
    /\ request.op = "callTool"
    /\ \E r \in Responses(calls[Len(calls)]) :
          Take(CallToolAfter(locals, r), calls, Append(answers, r))
    /\ UNCHANGED <<repository, request>>

----------------------------------------------------------------------------
(* The transport delivers the handler's outcome; the request is over.      *)

Respond ==
    /\ pc = "done"
    /\ pc' = "idle"
    /\ request' = [op |-> "none"]
    /\ locals' = NoLocals
    /\ calls' = <<>>
    /\ answers' = <<>>
    /\ response' = NoResponse
    /\ UNCHANGED repository

----------------------------------------------------------------------------

Next ==
    \/ ListResourcesBegin
    \/ ListResourcesResume
    \/ ReadResourceBegin
    \/ ReadResourceResume
    \/ CallToolBegin
    \/ CallToolResume
    \/ Respond

Spec == Init /\ [][Next]_vars

----------------------------------------------------------------------------
(* The properties checked.                                                 *)

KnownTools == {"sparqlQuery", "listGraphs"}

\* The remote call answered by r failed for the code that issued it.
AnswerFailed(r, via) ==
    \/ r.net = "failed"
    \/ ~r.ok
    \/ via = "typed" /\ r.kind = "notjson"

\* The remote call was answered by a well-formed results envelope.
IsEnvelope(r) == r.net = "ok" /\ r.ok /\ r.kind = "envelope"

\* C1: a callTool invocation of a known tool always ends in a ToolResult and
\* never in a protocol-level fault; isError is true exactly when rewriting or
\* execution failed.
C1_KnownToolNeverFaults ==
    (pc = "done" /\ request.op = "callTool" /\ request.name \in KnownTools) =>
        /\ response.kind = "result"
        /\ response.value.isError =
               (answers = <<>> \/ AnswerFailed(answers[1], calls[1].via))

\* The address names a repository and a view.
Recognized(uri) ==
    LET parsed == ParseAddress(uri)
    IN  /\ ~parsed.threw
        /\ parsed.value.repoName # ""
        /\ (parsed.value.resourceType # "" \/ parsed.value.graphUri # "")

\* The fixed query list of each view.
ExpectedQueries(found) ==
    IF found.resourceType = CLASS_LIST_PATH THEN <<ClassListQuery>>
    ELSE IF found.resourceType = PREDICATES_PATH THEN <<PredicatesQuery>>
    ELSE IF found.resourceType = STATS_PATH THEN <<StatsQuery, GraphCountQuery>>
    ELSE IF found.resourceType = SAMPLE_DATA_PATH THEN <<SampleQuery>>
    ELSE <<GraphSampleQuery(found.graphUri), MetadataQuery(found.graphUri),
           OntologyQuery(found.graphUri)>>

\* Every query of a view is mandatory but the ontology query of graph-detail.
Mandatory(found, i) == ~(found.resourceType = "" /\ i = 3)

\* C2: the remote calls of a read of a recognized view are a prefix of the
\* view's fixed query list, each issued once through the typed executor; no call
\* follows a failed mandatory query, and a read that ends without such a
\* failure has issued the whole list.
C2_ReadIssuesViewQueries ==
    (request.op = "readResource" /\ Recognized(request.uri)) =>
        LET found == ParseAddress(request.uri).value
            expected == ExpectedQueries(found)
            failedAt == {i \in 1..Len(answers) :
                            Mandatory(found, i) /\ AnswerFailed(answers[i], "typed")}
        IN  /\ Len(calls) <= Len(expected)
            /\ Len(answers) <= Len(calls)
            /\ \A i \in 1..Len(calls) :
                   calls[i].body = Str(expected[i]) /\ calls[i].via = "typed"
            /\ \A i, j \in 1..Len(calls) : i # j => calls[i] # calls[j]
            /\ \A i \in failedAt : Len(calls) = i /\ pc = "done"
            /\ (pc = "done" /\ failedAt = {}) => Len(calls) = Len(expected)

C2_Witness ==
    /\ pc = "done"
    /\ request.op = "readResource"
    /\ Recognized(request.uri)
    /\ Len(calls) = 3
    /\ AnswerFailed(answers[3], "typed")
    /\ response.kind = "result"

IsGraphDetail ==
    /\ request.op = "readResource"
    /\ Recognized(request.uri)
    /\ ParseAddress(request.uri).value.resourceType = ""

\* C3: in the graph-detail view a failed ontology query is absorbed (the read
\* returns a payload with keys sampleData, metadata and ontologyClasses, the
\* last one empty), and a failed sample or metadata query makes the read fail.
C3_OntologyFailureAbsorbed ==
    (pc = "done" /\ IsGraphDetail) =>
        /\ ( /\ Len(answers) = 3
             /\ IsEnvelope(answers[1])
             /\ IsEnvelope(answers[2])
             /\ AnswerFailed(answers[3], "typed") )
           => /\ response.kind = "result"
              /\ LET payload == response.value.contents[1].text.json
                 IN  /\ DOMAIN payload = {"sampleData", "metadata", "ontologyClasses"}
                     /\ payload.sampleData = answers[1].bindings
                     /\ payload.ontologyClasses = <<>>
        /\ (\E i \in 1..2 : i <= Len(answers) /\ AnswerFailed(answers[i], "typed"))
           => response.kind = "fault"

C3_Witness ==
    /\ pc = "done"
    /\ IsGraphDetail
    /\ Len(answers) = 3
    /\ IsEnvelope(answers[1])
    /\ Len(answers[1].bindings) = 2
    /\ IsEnvelope(answers[2])
    /\ answers[3].net = "failed"
    /\ response.kind = "result"

\* C4: listResources never ends in a fault; it returns an empty listing when
\* the graph-discovery query fails (status, transport or malformed result), and
\* an empty listing without any remote call when no repository is configured.
C4_ListingNeverFails ==
    (pc = "done" /\ request.op = "listResources") =>
        /\ response.kind = "result"
        /\ repository = "" => (calls = <<>> /\ response.value.resources = <<>>)
        /\ (repository # "" /\ ~IsEnvelope(answers[1]))
           => response.value.resources = <<>>

C4_Witness ==
    /\ pc = "done"
    /\ request.op = "listResources"
    /\ repository # ""
    /\ Len(answers) = 1
    /\ answers[1].net = "ok"
    /\ ~answers[1].ok
    /\ response.value.resources = <<>>

\* The last path segment of a descriptor's address, decoded.
DecodedLast(uri) == decodeURIComponent(uri[Len(uri)]).value

\* C5: with a repository configured and graphs g1..gn discovered, listResources
\* issues one query and returns 4+n descriptors: class list, predicates,
\* statistics, sample, then one graph descriptor per graph in the order g1..gn.
C5_ListingOrder ==
    ( /\ pc = "done"
      /\ request.op = "listResources"
      /\ repository # ""
      /\ IsEnvelope(answers[1]) )
    => LET graphs == answers[1].bindings
           resources == response.value.resources
           FixedUri(view) == <<"", REPOSITORY_PATH, repository, view>>
       IN  /\ Len(calls) = 1
           /\ Len(resources) = 4 + Len(graphs)
           /\ resources[1].uri = FixedUri(CLASS_LIST_PATH)
           /\ resources[2].uri = FixedUri(PREDICATES_PATH)
           /\ resources[3].uri = FixedUri(STATS_PATH)
           /\ resources[4].uri = FixedUri(SAMPLE_DATA_PATH)
           /\ \A i \in 1..Len(graphs) :
                  /\ SubSeq(resources[4 + i].uri, 1, 4)
                         = <<"", REPOSITORY_PATH, repository, GRAPH_PATH>>
                  /\ Len(resources[4 + i].uri) = 5
                  /\ DecodedLast(resources[4 + i].uri) = graphs[i]
                  /\ resources[4 + i].name = "Graph '" \o graphs[i] \o "'"

C5_Witness ==
    /\ pc = "done"
    /\ request.op = "listResources"
    /\ Len(answers) = 1
    /\ IsEnvelope(answers[1])
    /\ answers[1].bindings = <<"urn:a", "urn:b">>
    /\ Len(response.value.resources) = 6

IsSparqlQueryCall == request.op = "callTool" /\ request.name = "sparqlQuery"

\* A graph IRI was supplied with the invocation.
GraphSupplied ==
    request.arguments.graph.t = "string" /\ request.arguments.graph.v # ""

\* The text carries the caller's own source clause or graph pattern.
ExplicitlyScoped(text) == includes(text, "FROM <") \/ includes(text, "GRAPH <")

\* WHERE stands at position i of the text and nowhere before it.
FirstWhereAt(text, i) ==
    /\ SubSeq(text, i, i + 4) = "WHERE"
    /\ \A j \in 1..(i - 1) : SubSeq(text, j, j + 4) # "WHERE"

\* C6: for a query text without FROM < and GRAPH < and a supplied graph g, the
\* text sent is the query with "FROM <g> " put right before its first WHERE,
\* wherever that WHERE stands, and the query itself when it has no WHERE.
C6_SplicedBeforeFirstWhere ==
    ( /\ IsSparqlQueryCall
      /\ request.arguments.query.t = "string"
      /\ GraphSupplied
      /\ ~ExplicitlyScoped(request.arguments.query.v) )
    => LET q == request.arguments.query.v
           g == request.arguments.graph.v
       IN  /\ Len(calls) = 1
           /\ IF includes(q, "WHERE")
              THEN \E i \in 1..(Len(q) - 4) :
                      /\ FirstWhereAt(q, i)
                      /\ calls[1].body =
                             Str(SubSeq(q, 1, i - 1) \o "FROM <" \o g \o "> "
                                 \o SubSeq(q, i, Len(q)))
              ELSE calls[1].body = Str(q)

\* C7: the text sent to the endpoint is the caller's query, unchanged, when no
\* graph is supplied and when the query already carries FROM < or GRAPH <.
C7_ExplicitScopingWins ==
    ( /\ IsSparqlQueryCall
      /\ \/ ~GraphSupplied
         \/ /\ request.arguments.query.t = "string"
            /\ ExplicitlyScoped(request.arguments.query.v) )
    => /\ Len(calls) = 1
       /\ calls[1].body = request.arguments.query

C7_Witness ==
    /\ IsSparqlQueryCall
    /\ GraphSupplied
    /\ request.arguments.query.t = "string"
    /\ includes(request.arguments.query.v, "GRAPH <")
    /\ ~includes(request.arguments.query.v, "FROM <")
    /\ indexOf(request.arguments.query.v, "WHERE") > 0
    /\ Len(calls) = 1
    /\ calls[1].body = request.arguments.query

\* C8: rewriting the text that was sent, with the same graph, changes nothing:
\* the rewrite is idempotent, and a spliced text counts as already scoped.
C8_RewriteIdempotent ==
    (IsSparqlQueryCall /\ calls # <<>>)
    => modifiedQuery(calls[1].body, request.arguments.graph) = Returned(calls[1].body)

C8_Witness ==
    /\ IsSparqlQueryCall
    /\ Len(calls) = 1
    /\ calls[1].body # request.arguments.query
    /\ includes(calls[1].body.v, "FROM <urn:g> WHERE")

\* C9: callTool with any other tool name ends at once in a protocol-level
\* fault, not in a ToolResult, and issues no remote call.
C9_UnknownToolFaults ==
    (request.op = "callTool" /\ request.name \notin KnownTools)
    => /\ pc = "done"
       /\ response.kind = "fault"
       /\ calls = <<>>
       /\ answers = <<>>

C9_Witness ==
    /\ request.op = "callTool"
    /\ request.name = "bogus"
    /\ request.arguments.query # Undefined
    /\ pc = "done"
    /\ response.kind = "fault"

\* C10: for every sparqlQuery invocation the format argument selects both the
\* Accept encoding and the response path, and they agree: json or absent gives
\* JSON through the typed executor, xml and csv give their encoding through the
\* raw path, and the raw path never goes with the JSON encoding.
C10_FormatSelectsEncodingAndPath ==
    (IsSparqlQueryCall /\ calls # <<>>)
    => LET format == request.arguments.format
       IN  /\ format \in {Undefined, Str("json")}
              => (calls[1].accept = JsonAccept /\ calls[1].via = "typed")
           /\ format = Str("xml")
              => (calls[1].accept = XmlAccept /\ calls[1].via = "raw")
           /\ format = Str("csv")
              => (calls[1].accept = CsvAccept /\ calls[1].via = "raw")
           /\ ~(calls[1].via = "raw" /\ calls[1].accept = JsonAccept)

\* The repository name an address carries: the segment after the last
\* repository marker that has a segment after it ("" when there is none).
RepositoryNameOf(uri) ==
    LET markers == {i \in 1..(Len(uri) - 1) : uri[i] = REPOSITORY_PATH}
    IN  IF markers = {} THEN ""
        ELSE uri[(CHOOSE i \in markers : \A j \in markers : j <= i) + 1]

\* No segment of the address is a view-kind token or the graph marker.
NoViewNoGraph(uri) ==
    \A i \in 1..Len(uri) : uri[i] \notin ViewTokens \cup {GRAPH_PATH}

\* A graph marker of the address is followed by a segment that is not valid
\* percent-encoding.
MalformedGraphSegment(uri) ==
    \E i \in 1..(Len(uri) - 1) :
        uri[i] = GRAPH_PATH /\ decodeURIComponent(uri[i + 1]).threw

MissingRepositoryFault == Fault("Invalid resource URI: missing repository name")
InvalidAddressFault == Fault("Invalid resource URI")

FirstQueryOf(view) ==
    CASE view = CLASS_LIST_PATH -> ClassListQuery
      [] view = PREDICATES_PATH -> PredicatesQuery
      [] view = STATS_PATH -> StatsQuery
      [] view = SAMPLE_DATA_PATH -> SampleQuery

\* C12: a read of an address that listResources hands out for the configured
\* repository selects the view its descriptor names: the four fixed
\* descriptors select class list, predicates, statistics and sample, and the
\* descriptor of graph g selects the graph-detail view of exactly g.
C12_ListedAddressSelectsItsView ==
    (request.op = "readResource" /\ repository # "") =>
        \A g \in Graphs :
            LET listed == Resources(<<g>>)
                Selects(query) == calls # <<>> /\ calls[1].body = Str(query)
            IN  /\ request.uri = listed[1].uri => Selects(FirstQueryOf(CLASS_LIST_PATH))
                /\ request.uri = listed[2].uri => Selects(FirstQueryOf(PREDICATES_PATH))
                /\ request.uri = listed[3].uri => Selects(FirstQueryOf(STATS_PATH))
                /\ request.uri = listed[4].uri => Selects(FirstQueryOf(SAMPLE_DATA_PATH))
                /\ request.uri = listed[5].uri => Selects(GraphSampleQuery(g))

\* C13: every remote call of every request targets the configured repository;
\* a read of an address that names another repository is not refused, queries
\* the configured repository and returns when its queries are answered.
C13_ConfiguredRepositoryQueried ==
    /\ \A i \in 1..Len(calls) : calls[i].repository = repository
    /\ ( /\ request.op = "readResource"
         /\ Recognized(request.uri)
         /\ ParseAddress(request.uri).value.repoName # repository )
       => LET expected == ExpectedQueries(ParseAddress(request.uri).value)
          IN  /\ calls # <<>>
              /\ ( /\ pc = "done"
                   /\ Len(answers) = Len(expected)
                   /\ \A i \in 1..Len(answers) : IsEnvelope(answers[i]) )
                 => response.kind = "result"

C13_Witness ==
    /\ request.op = "readResource"
    /\ Recognized(request.uri)
    /\ ParseAddress(request.uri).value.repoName = "other"
    /\ repository = "repo"
    /\ pc = "done"
    /\ Len(calls) = 3
    /\ \A i \in 1..3 : calls[i].repository = "repo" /\ IsEnvelope(answers[i])
    /\ response.kind = "result"

====
